---- MODULE Spec2Model ----
(***************************************************************************)
(* Branch-and-cut model of the dual-tour TSP program (src/modelo).         *)
(*                                                                         *)
(*   SpecTour  tour::min_sub_tour (tour.hpp) run step by step on an        *)
(*             adjacency matrix drawn from the input domains below.        *)
(*   Spec      the program: main, program::run, vertex::read, the graph    *)
(*             builder, graph::solve with the engine and its lazy          *)
(*             separation callback, graph::tour and the exit status.       *)
(*                                                                         *)
(* The MILP engine is external: it is modelled by its contract, as the     *)
(* nondeterministic choice of any integral assignment that satisfies every *)
(* constraint of the model and every lazy constraint submitted so far.     *)
(* Costs and the objective are left out: any feasible assignment may be    *)
(* the one the engine reports.  The wall-clock timeout is not modelled.    *)
(***************************************************************************)
EXTENDS Integers, Sequences, FiniteSets, TLC

\* ------------------------------------------------------------------ bounds
\* Largest order for which every boolean matrix whatsoever is an input.
MaxAnyN == 3
\* Largest order for which every union of vertex-disjoint cycles is an input.
MaxCycN == 8
\* Longest vertex file (in lines).
MaxRecords == 3
\* Size of the built-in vertex set; --nodes ranges over 0 .. DefaultCount + 1.
DefaultCount == 6
\* Largest --similarity.
MaxK == 6
\* The engine presents no further candidate once this many cuts are in.
MaxCuts == 2
\* Largest candidate space the engine's search is explored over.
MaxCandidates == 1000
\* The candidate/cut loop on its own is followed up to this many cuts.
MaxLoopCuts == 6

\* ------------------------------------------------------- program constants
EXIT_SUCCESS == 0
EXIT_FAILURE == 1
\* std::numeric_limits<size_t>::max(), as the largest number at hand.
SIZE_MAX == 2147483647
\* A default-constructed GRBVar: the handle of no variable.
NullVar == -1
\* The tours are numbered 0 and 1 (main.cpp: for (i = 0; i <= 1; i++)).
LastTour == 1

VARIABLES
    \* tour::iter_tours and tour::min_sub_tour (tour.hpp)
    count,          \* vertices.size()
    solution,       \* the n x n boolean adjacency matrix
    seen,           \* iter_tours::seen
    node,           \* next_tour(node): the walk's current position
    len,            \* next_tour(node): the loop counter
    tour_vertices,  \* next_tour(node): the local `vertices` being built
    min_tour,       \* min_sub_tour: min_tour
    mpc,            \* min_sub_tour: "first" (line 130), "while" (136), "done"
    ipc,            \* iter_tours: "idle", "walk" (97-106), "returned"
    tours,          \* history: the walks returned so far, in order
    \* the program (main.cpp, vertex.hpp, graph.hpp)
    pc,             \* position in main / program::run
    args,           \* the parsed command line
    next_id,        \* vertex::next_id's static count
    pool,           \* program::vertices(): the vertices sampled from
    vertices,       \* graph::vertices
    vars,           \* graph::vars, one matrix of variable handles per tour
    constrs,        \* the model's linear constraints, per tour, in order
    quad,           \* the model's similarity constraint: <<>> or <<rhs>>
    lazy,           \* the lazy constraints submitted so far, per tour
    cand,           \* the integral candidate under inspection: <<>> or <<x>>
    sol_count,      \* GRB_IntAttr_SolCount
    X,              \* GRB_DoubleAttr_X of every variable once solved
    tour_i,         \* program::run's loop variable i
    thrown,         \* the exception in flight or caught
    exit_status     \* the process exit status: <<>> while running

tourVars == <<count, solution, seen, node, len, tour_vertices, min_tour,
              mpc, ipc, tours>>

progVars == <<pc, args, next_id, pool, vertices, vars, constrs, quad, lazy,
              cand, sol_count, X, tour_i, thrown, exit_status>>

allVars == <<tourVars, progVars>>

\* ----------------------------------------------------------------- helpers
Range(s) == {s[i] : i \in DOMAIN s}

MinOf(S) == CHOOSE x \in S : \A y \in S : x <= y

Pos(n) == 0 .. (n - 1)

\* ----------------------------------------------------------- input domains
\* Every n x n boolean matrix (utils::matrix<bool>, row-indexed).
AnyMatrix(n) == [Pos(n) -> [Pos(n) -> BOOLEAN]]

Degree(E, u) == Cardinality({e \in E : u \in e})

\* Every edge set over 0..n-1 in which each vertex has exactly two incident
\* edges, built vertex by vertex.
RECURSIVE TwoRegularFrom(_, _, _)
TwoRegularFrom(n, u, E) ==
    IF u = n THEN {E}
    ELSE LET d     == Degree(E, u)
             cands == {v \in (u + 1) .. (n - 1) : Degree(E, v) < 2}
             picks == {S \in SUBSET cands : Cardinality(S) = 2 - d}
         IN  UNION {TwoRegularFrom(n, u + 1, E \cup {{u, v} : v \in S}) : S \in picks}

MatrixOf(n, E) == [u \in Pos(n) |-> [v \in Pos(n) |-> {u, v} \in E /\ u # v]]

\* Symmetric, false-diagonal matrices whose rows all have exactly two true
\* entries: the unions of vertex-disjoint cycles over 0..n-1.
CycleMatrices(n) == {MatrixOf(n, E) : E \in TwoRegularFrom(n, 0, {})}

TourInputs(n) ==
    (IF n <= MaxAnyN THEN AnyMatrix(n) ELSE {})
        \cup (IF n >= 3 /\ n <= MaxCycN THEN CycleMatrices(n) ELSE {})

\* ------------------------------------------------------- tour.hpp, iter_tours
\* std::optional<unsigned> is <<>> (nullopt) or <<value>>.

\* iter_tours::new_node with its scan starting at position 1.
NewNodeFromOne(sn, n) ==
    LET unseen == {nd \in Pos(n) \ {0} : ~sn[nd]}
    IN  IF unseen = {} THEN <<>> ELSE <<MinOf(unseen)>>

\* iter_tours::new_node: the lowest position not yet seen.
NewNode(sn, n) ==
    LET unseen == {nd \in Pos(n) : ~sn[nd]}
    IN  IF unseen = {} THEN <<>> ELSE <<MinOf(unseen)>>

\* iter_tours::best_next: the lowest unseen position adjacent to u.
BestNextIgnoringSeen(sol, sn, n, u) ==
    LET next == {v \in Pos(n) : sol[u][v]}
    IN  IF next = {} THEN <<>> ELSE <<MinOf(next)>>

BestNext(sol, sn, n, u) ==
    LET next == {v \in Pos(n) : sol[u][v] /\ ~sn[v]}
    IN  IF next = {} THEN <<>> ELSE <<MinOf(next)>>

\* iter_tours::next_tour(unsigned node) with its loop ending one round early.
RECURSIVE NextTourFromShort(_, _, _, _, _, _)
NextTourFromShort(sol, sn, n, nd, l, vs) ==
    IF l <= 1 THEN [tour |-> vs, seen |-> sn]
    ELSE LET sn2  == [sn EXCEPT ![nd] = TRUE]
             vs2  == Append(vs, nd)
             next == BestNext(sol, sn2, n, nd)
         IN  IF next # <<>>
             THEN NextTourFromShort(sol, sn2, n, next[1], l - 1, vs2)
             ELSE [tour |-> vs2, seen |-> sn2]

\* iter_tours::next_tour(unsigned node), as a function: the walk and the seen
\* bits it leaves.
RECURSIVE NextTourFrom(_, _, _, _, _, _)
NextTourFrom(sol, sn, n, nd, l, vs) ==
    IF l = 0 THEN [tour |-> vs, seen |-> sn]
    ELSE LET sn2  == [sn EXCEPT ![nd] = TRUE]
             vs2  == Append(vs, nd)
             next == BestNext(sol, sn2, n, nd)
         IN  IF next # <<>>
             THEN NextTourFrom(sol, sn2, n, next[1], l - 1, vs2)
             ELSE [tour |-> vs2, seen |-> sn2]

\* tour::min_sub_tour's while loop, as a function.
RECURSIVE MinOfRest(_, _, _, _)
MinOfRest(sol, sn, n, min) ==
    LET nd == NewNode(sn, n)
    IN  IF nd = <<>> THEN min
        ELSE LET t == NextTourFrom(sol, sn, n, nd[1], n, <<>>)
             IN  MinOfRest(sol, t.seen, n,
                           IF Len(t.tour) < Len(min) THEN t.tour ELSE min)

\* tour::min_sub_tour without `min_tour = *first`: the minimum starts empty.
MinSubTourNoFirst(n, sol) ==
    LET sn0 == [p \in Pos(n) |-> FALSE]
        nd  == NewNode(sn0, n)
    IN  IF nd = <<>> THEN <<>>
        ELSE LET first == NextTourFrom(sol, sn0, n, nd[1], n, <<>>)
             IN  MinOfRest(sol, first.seen, n, <<>>)

\* tour::min_sub_tour, as a function of the matrix.
MinSubTour(n, sol) ==
    LET sn0 == [p \in Pos(n) |-> FALSE]
        nd  == NewNode(sn0, n)
    IN  IF nd = <<>> THEN <<>>
        ELSE LET first == NextTourFrom(sol, sn0, n, nd[1], n, <<>>)
             IN  MinOfRest(sol, first.seen, n, first.tour)

\* ------------------------------------------- tour.hpp, one step per action
\* The program's variables while only the extraction runs.
ProgIdle ==
    /\ pc = "idle"
    /\ args = <<>>
    /\ next_id = 1
    /\ pool = <<>>
    /\ vertices = <<>>
    /\ vars = <<>>
    /\ constrs = <<>>
    /\ quad = <<>>
    /\ lazy = <<>>
    /\ cand = <<>>
    /\ sol_count = 0
    /\ X = <<>>
    /\ tour_i = 0
    /\ thrown = <<>>
    /\ exit_status = <<>>

TourInit ==
    /\ count \in 0 .. MaxCycN
    /\ solution \in TourInputs(count)
    /\ seen = [p \in Pos(count) |-> FALSE]
    /\ node = 0
    /\ len = 0
    /\ tour_vertices = <<>>
    /\ min_tour = <<>>
    /\ mpc = "first"
    /\ ipc = "idle"
    /\ tours = <<>>
    /\ ProgIdle

\* iter_tours::next_tour(void) with the walk's budget one short of count.
NextTourShortLen ==
    /\ mpc \in {"first", "while"}
    /\ ipc = "idle"
    /\ LET nd == NewNode(seen, count)
       IN  IF nd = <<>>
           THEN /\ mpc' = "done"
                /\ UNCHANGED <<node, len, tour_vertices, ipc>>
           ELSE /\ node' = nd[1]
                /\ len' = IF count > 1 THEN count - 1 ELSE count
                /\ tour_vertices' = <<>>
                /\ ipc' = "walk"
                /\ mpc' = mpc
    /\ UNCHANGED <<count, solution, seen, min_tour, tours>>
    /\ UNCHANGED progVars

\* iter_tours::next_tour(void), called by min_sub_tour at line 130 or 136.
NextTour ==
    /\ mpc \in {"first", "while"}
    /\ ipc = "idle"
    /\ LET nd == NewNode(seen, count)
       IN  IF nd = <<>>
           THEN /\ mpc' = "done"
                /\ UNCHANGED <<node, len, tour_vertices, ipc>>
           ELSE /\ node' = nd[1]
                /\ len' = count
                /\ tour_vertices' = <<>>
                /\ ipc' = "walk"
                /\ mpc' = mpc
    /\ UNCHANGED <<count, solution, seen, min_tour, tours>>
    /\ UNCHANGED progVars

WalkStepNoMark ==
    /\ ipc = "walk"
    /\ len > 0
    /\ seen' = seen
    /\ tour_vertices' = Append(tour_vertices, node)
    /\ LET next == BestNext(solution, seen', count, node)
       IN  IF next # <<>>
           THEN /\ node' = next[1]
                /\ len' = len - 1
                /\ ipc' = IF len - 1 > 0 THEN "walk" ELSE "returned"
           ELSE /\ ipc' = "returned"
                /\ UNCHANGED <<node, len>>
    /\ UNCHANGED <<count, solution, min_tour, mpc, tours>>
    /\ UNCHANGED progVars

\* One iteration of the loop of iter_tours::next_tour(unsigned node).
WalkStep ==
    /\ ipc = "walk"
    /\ len > 0
    /\ seen' = [seen EXCEPT ![node] = TRUE]
    /\ tour_vertices' = Append(tour_vertices, node)
    /\ LET next == BestNext(solution, seen', count, node)
       IN  IF next # <<>>
           THEN /\ node' = next[1]
                /\ len' = len - 1
                /\ ipc' = IF len - 1 > 0 THEN "walk" ELSE "returned"
           ELSE /\ ipc' = "returned"
                /\ UNCHANGED <<node, len>>
    /\ UNCHANGED <<count, solution, min_tour, mpc, tours>>
    /\ UNCHANGED progVars

TakeTourLastFound ==
    /\ ipc = "returned"
    /\ IF mpc = "first"
       THEN /\ min_tour' = tour_vertices
            /\ mpc' = "while"
       ELSE /\ min_tour' = IF Len(tour_vertices) <= Len(min_tour)
                           THEN tour_vertices ELSE min_tour
            /\ mpc' = mpc
    /\ ipc' = "idle"
    /\ tours' = Append(tours, tour_vertices)
    /\ UNCHANGED <<count, solution, seen, node, len, tour_vertices>>
    /\ UNCHANGED progVars

\* min_sub_tour receives a walk: the first one (line 131) or a later one,
\* kept only when strictly shorter (lines 137-139).
TakeTour ==
    /\ ipc = "returned"
    /\ IF mpc = "first"
       THEN /\ min_tour' = tour_vertices
            /\ mpc' = "while"
       ELSE /\ min_tour' = IF Len(tour_vertices) < Len(min_tour)
                           THEN tour_vertices ELSE min_tour
            /\ mpc' = mpc
    /\ ipc' = "idle"
    /\ tours' = Append(tours, tour_vertices)
    /\ UNCHANGED <<count, solution, seen, node, len, tour_vertices>>
    /\ UNCHANGED progVars

TourNext == NextTour \/ WalkStep \/ TakeTour

SpecTour == TourInit /\ [][TourNext]_allVars

TourDone == mpc = "done"

\* The function and the step-by-step run are the same computation.
StepwiseAgrees == TourDone => min_tour = MinSubTour(count, solution)

\* ------------------------------------------------------------ vertex.hpp
\* A vertex is its id and the record it was read from (which stands for its
\* coordinates).  vertex::operator== compares ids alone.
VertexEq(v, w) == v.id = w.id

\* vertex::read's loop over the lines of the file: `vertex new_vertex;` is
\* default-constructed (id = SIZE_MAX) and operator>> fills its coordinates
\* alone; a line that does not parse throws.  The result is <<"ok", vertices>>
\* or <<"throw", reason>>.
RECURSIVE ReadLines(_, _, _)
ReadLines(lines, i, acc) ==
    IF i > Len(lines) THEN <<"ok", acc>>
    ELSE IF lines[i] = "record"
         THEN ReadLines(lines, i + 1, Append(acc, [id |-> SIZE_MAX, rec |-> i]))
         ELSE <<"throw", "contains_invalid_data">>

\* vertex::read.
Read(lines) ==
    LET r == ReadLines(lines, 1, <<>>)
    IN  IF r[1] = "ok" /\ Len(r[2]) <= 0
        THEN <<"throw", "is_empty_or_missing">>
        ELSE r

\* The built-in vertex set, with the ids it was stored with.
DEFAULT_VERTICES == [i \in 1 .. DefaultCount |-> [id |-> i, rec |-> i]]

\* The subsequence of s at the (increasing) indices in I.
RECURSIVE SubSeqAt(_, _, _)
SubSeqAt(s, I, i) ==
    IF i > Len(s) THEN <<>>
    ELSE (IF i \in I THEN <<s[i]>> ELSE <<>>) \o SubSeqAt(s, I, i + 1)

\* utils::sample: what std::ranges::sample may draw, count items of the input
\* in their order.
SampleSet(input, cnt) ==
    {SubSeqAt(input, I, 1) : I \in {J \in SUBSET DOMAIN input : Cardinality(J) = cnt}}

\* ------------------------------------------------------------- graph.hpp
Tours == 0 .. LastTour

\* graph::size: the number of unordered pairs.
Size(n) == (n * (n - 1)) \div 2

\* The pairs u < v in the order of add_vars' two loops.
RECURSIVE EdgeLoop(_, _, _)
EdgeLoop(n, u, v) ==
    IF u >= n THEN <<>>
    ELSE IF v >= n THEN EdgeLoop(n, u + 1, u + 2)
         ELSE <<<<u, v>>>> \o EdgeLoop(n, u, v + 1)

\* graph::add_vars: one addVar per pair u < v, the handle stored at [u][v] and
\* [v][u]; the diagonal keeps the default-constructed handle.  The engine
\* numbers its variables in creation order, from `first`.
AddVars(n, first) ==
    LET edges == EdgeLoop(n, 0, 1)
        at(u, v) == CHOOSE i \in DOMAIN edges : edges[i] = <<u, v>>
    IN  [u \in Pos(n) |-> [v \in Pos(n) |->
            IF u = v THEN NullVar
            ELSE first + at(IF u < v THEN u ELSE v, IF u < v THEN v ELSE u) - 1]]

\* The terms of row u, diagonal excepted, in the order of the inner loop.
RowExpr(n, vm, u) ==
    [i \in 1 .. (n - 1) |-> vm[u][IF i - 1 < u THEN i - 1 ELSE i]]

\* graph::add_constraint_deg_2 without the constraint of the first vertex.
AddConstraintDeg2SkipFirst(n, vm) ==
    [i \in 1 .. (n - 1) |-> [expr |-> RowExpr(n, vm, i), sense |-> "=", rhs |-> 2]]

\* graph::add_constraint_deg_2: for every u, sum over v # u of vars[u][v] = 2.
AddConstraintDeg2(n, vm) ==
    [i \in 1 .. n |-> [expr |-> RowExpr(n, vm, i - 1), sense |-> "=", rhs |-> 2]]

\* The similarity constraint: sum over the pairs u < v of the product of the
\* two tours' variables >= k.
AddConstraintSimilarity(k) == <<k>>

\* The handles of a variable matrix.
Handles(n, vm) == {vm[p[1]][p[2]] : p \in {q \in Pos(n) \X Pos(n) : q[1] # q[2]}}

\* ------------------------------------------------------------ the engine
\* The value of a linear expression with unit coefficients under the binary
\* assignment x.
RECURSIVE Value(_, _)
Value(x, expr) ==
    IF expr = <<>> THEN 0 ELSE x[Head(expr)] + Value(x, Tail(expr))

Satisfies(x, c) ==
    CASE c.sense = "="  -> Value(x, c.expr) = c.rhs
      [] c.sense = "<=" -> Value(x, c.expr) <= c.rhs
      [] c.sense = ">=" -> Value(x, c.expr) >= c.rhs

\* The engine's enumeration of the binary assignments satisfying the
\* constraints cs, constraint by constraint: P holds the assignments of the
\* variables `done` that satisfy cs[1 .. i-1], and cs[i] extends each of them
\* to the variables it is the first to mention.
RECURSIVE Extend(_, _, _, _)
Extend(cs, i, done, P) ==
    IF i > Len(cs) THEN [done |-> done, sols |-> P]
    ELSE LET new == Range(cs[i].expr) \ done
         IN  Extend(cs, i + 1, done \cup new,
                    {q[1] @@ q[2] : q \in {r \in P \X [new -> {0, 1}] :
                                              Satisfies(r[1] @@ r[2], cs[i])}})

\* The integral assignments of one tour's variables that satisfy that tour's
\* degree constraints.
DegreeFeasible(n, first) ==
    LET vm   == AddVars(n, first)
        r    == Extend(AddConstraintDeg2(n, vm), 1, {}, {<<>>})
        free == Handles(n, vm) \ r.done
    IN  {q[1] @@ q[2] : q \in r.sols \X [free -> {0, 1}]}

\* The largest order the program can reach.
MaxOrder == IF MaxRecords > DefaultCount THEN MaxRecords ELSE DefaultCount

\* The same, tabulated once for every order and tour: <<n, t, x>>.
DegreeFeasibleTable ==
    UNION {{<<p[1], p[2], x>> : x \in DegreeFeasible(p[1], p[2] * Size(p[1]))} :
              p \in (0 .. MaxOrder) \X Tours}

DegreeFeasibleOf(n, t) ==
    {e[3] : e \in {d \in DegreeFeasibleTable : d[1] = n /\ d[2] = t}}

\* The variable matrices of the two tours, numbered as the engine numbers
\* them: tour 0's variables first.
Vars(n) == [t \in Tours |-> AddVars(n, t * Size(n))]

\* The pairs u < v whose variable in vm has value 1 under x.
Selected(n, vm, x) ==
    {e \in {p \in Pos(n) \X Pos(n) : p[1] < p[2]} : x[vm[e[1]][e[2]]] = 1}

\* The value of the similarity constraint's left-hand side, the sum over the
\* pairs of the product of the two tours' variables, given the pairs each
\* tour selects.
SharedEdges(E0, E1) == Cardinality(E0 \cap E1)

\* utils::get_solutions: the boolean snapshot of one tour's variables,
\* value > 0.5, with nothing on the diagonal.
Snapshot(n, vm, x) ==
    [u \in Pos(n) |-> [v \in Pos(n) |-> u # v /\ x[vm[u][v]] = 1]]

\* The subtour-elimination constraint over the positions of the cycle tr: the
\* sum of the variables of every pair of them <= |tr| - 1.
Cut(vm, tr) ==
    LET pairs == EdgeLoop(Len(tr), 0, 1)
    IN  [expr  |-> [i \in DOMAIN pairs |-> vm[tr[pairs[i][1] + 1]][tr[pairs[i][2] + 1]]],
         sense |-> "<=",
         rhs   |-> Len(tr) - 1]

\* What the separation callback submits for one tour of the candidate x.
Separate(n, vm, x) ==
    LET tr == MinSubTour(n, Snapshot(n, vm, x))
    IN  IF Len(tr) < n THEN {Cut(vm, tr)} ELSE {}

Order == Len(vertices)

TotalCuts == Cardinality(lazy[0]) + Cardinality(lazy[LastTour])

\* The integral assignments the engine may report: those satisfying the
\* degree constraints of both tours, the similarity constraint and every lazy
\* constraint submitted so far.
Candidates ==
    LET ok(t) == {<<x, Selected(Order, vars[t], x)>> :
                     x \in {y \in DegreeFeasibleOf(Order, t) :
                         /\ \A i \in DOMAIN constrs[t] : Satisfies(y, constrs[t][i])
                         /\ \A c \in lazy[t] : Satisfies(y, c)}}
    IN  {q[1][1] @@ q[2][1] : q \in {p \in ok(0) \X ok(LastTour) :
            quad = <<>> \/ SharedEdges(p[1][2], p[2][2]) >= quad[1]}}

\* --------------------------------------------------- main.cpp, the program
Files == UNION {[1 .. m -> {"record", "garbage"}] : m \in 0 .. MaxRecords}

Arguments ==
    [ok         : BOOLEAN,
     filename   : {<<>>} \cup {<<f>> : f \in Files},
     nodes      : 0 .. (DefaultCount + 1),
     similarity : 0 .. MaxK]

\* The extraction's variables while the program runs.
TourIdle ==
    /\ count = 0
    /\ solution = <<>>
    /\ seen = <<>>
    /\ node = 0
    /\ len = 0
    /\ tour_vertices = <<>>
    /\ min_tour = <<>>
    /\ mpc = "idle"
    /\ ipc = "idle"
    /\ tours = <<>>

Init ==
    /\ TourIdle
    /\ pc = "main"
    /\ args \in Arguments
    /\ next_id = DefaultCount + 1
    /\ pool = <<>>
    /\ vertices = <<>>
    /\ vars = <<>>
    /\ constrs = <<>>
    /\ quad = <<>>
    /\ lazy = <<>>
    /\ cand = <<>>
    /\ sol_count = 0
    /\ X = <<>>
    /\ tour_i = 0
    /\ thrown = <<>>
    /\ exit_status = <<>>

Throw(type, what, vs, subtour) ==
    <<[type |-> type, what |-> what, vertices |-> vs, subtour |-> subtour]>>

\* program::program: a command line that does not parse ends the process.
Program ==
    /\ pc = "main"
    /\ IF args.ok
       THEN /\ pc' = "run"
            /\ UNCHANGED <<thrown, exit_status>>
       ELSE /\ pc' = "exit"
            /\ thrown' = Throw("std::runtime_error", "parse_args", <<>>, <<>>)
            /\ exit_status' = <<EXIT_FAILURE>>
    /\ UNCHANGED <<args, next_id, pool, vertices, vars, constrs, quad, lazy,
                   cand, sol_count, X, tour_i>>
    /\ UNCHANGED tourVars

\* program::vertices: the file's vertices, or the built-in set.
Vertices ==
    /\ pc = "run"
    /\ IF args.filename = <<>>
       THEN /\ pool' = DEFAULT_VERTICES
            /\ pc' = "sample"
            /\ UNCHANGED thrown
       ELSE LET r == Read(args.filename[1])
            IN  IF r[1] = "ok"
                THEN /\ pool' = r[2]
                     /\ pc' = "sample"
                     /\ UNCHANGED thrown
                ELSE /\ thrown' = Throw("utils::invalid_file", r[2], <<>>, <<>>)
                     /\ pc' = "catch"
                     /\ UNCHANGED pool
    /\ UNCHANGED <<args, next_id, vertices, vars, constrs, quad, lazy, cand,
                   sol_count, X, tour_i, exit_status>>
    /\ UNCHANGED tourVars

\* program::sample and utils::sample.
Sample ==
    /\ pc = "sample"
    /\ IF args.nodes > Len(pool)
       THEN /\ thrown' = Throw("utils::not_enough_items", "sample", <<>>, <<>>)
            /\ pc' = "catch"
            /\ UNCHANGED vertices
       ELSE /\ vertices' \in SampleSet(pool, args.nodes)
            /\ pc' = "map"
            /\ UNCHANGED thrown
    /\ pool' = <<>>
    /\ UNCHANGED <<args, next_id, vars, constrs, quad, lazy, cand, sol_count,
                   X, tour_i, exit_status>>
    /\ UNCHANGED tourVars

\* The similarity program::map hands to the graph, dropped.
MapSimilarityDropped(k) == 0

\* The similarity program::map hands to the graph: program::similarity().
MapSimilarity(k) == k

\* program::map and graph::graph: the variables and degree constraints of each
\* tour and the similarity constraint; then program::run calls graph::solve,
\* which attaches the callback and enters the engine.
Map ==
    /\ pc = "map"
    /\ vars' = Vars(Order)
    /\ constrs' = [t \in Tours |-> AddConstraintDeg2(Order, vars'[t])]
    /\ quad' = AddConstraintSimilarity(MapSimilarity(args.similarity))
    /\ lazy' = [t \in Tours |-> {}]
    /\ pc' = "optimize"
    /\ UNCHANGED <<args, next_id, pool, vertices, cand, sol_count, X, tour_i,
                   thrown, exit_status>>
    /\ UNCHANGED tourVars

\* The engine finds an integral candidate and invokes the callback on it.
EnginePresent ==
    /\ pc = "optimize"
    /\ TotalCuts < MaxCuts
    /\ LET open == Candidates
       IN  /\ Cardinality(open) <= MaxCandidates
           /\ \E x \in open : cand' = <<x>>
    /\ pc' = "callback"
    /\ UNCHANGED <<args, next_id, pool, vertices, vars, constrs, quad, lazy,
                   sol_count, X, tour_i, thrown, exit_status>>
    /\ UNCHANGED tourVars

\* The lazy separation callback: each tour's snapshot is searched for a
\* subtour and a cut is submitted for each one found.  A candidate that draws
\* no cut becomes the engine's solution; the engine's search ends with it.
Callback ==
    /\ pc = "callback"
    /\ lazy' = [t \in Tours |-> lazy[t] \cup Separate(Order, vars[t], cand[1])]
    /\ IF lazy' = lazy
       THEN /\ sol_count' = sol_count + 1
            /\ X' = cand[1]
            /\ pc' = "solved"
       ELSE /\ pc' = "optimize"
            /\ UNCHANGED <<sol_count, X>>
    /\ cand' = <<>>
    /\ UNCHANGED <<args, next_id, pool, vertices, vars, constrs, quad, tour_i,
                   thrown, exit_status>>
    /\ UNCHANGED tourVars

\* The engine reports an internal failure.
EngineError ==
    /\ pc = "optimize"
    /\ thrown' = Throw("GRBException", "optimize", <<>>, <<>>)
    /\ pc' = "catch"
    /\ UNCHANGED <<args, next_id, pool, vertices, vars, constrs, quad, lazy,
                   cand, sol_count, X, tour_i, exit_status>>
    /\ UNCHANGED tourVars

\* graph::solve once optimize() returns, with a solution or with the search
\* exhausted: no solution throws zero_solutions.  (A search cut short by
\* MaxCuts is not followed further.)
Solve ==
    /\ \/ pc = "solved"
       \/ pc = "optimize" /\ TotalCuts < MaxCuts /\ Candidates = {}
    /\ IF sol_count <= 0
       THEN /\ thrown' = Throw("utils::invalid_solution", "zero_solutions",
                               vertices, <<>>)
            /\ pc' = "catch"
       ELSE /\ pc' = "report"
            /\ UNCHANGED thrown
    /\ tour_i' = 0
    /\ UNCHANGED <<args, next_id, pool, vertices, vars, constrs, quad, lazy,
                   cand, sol_count, X, exit_status>>
    /\ UNCHANGED tourVars

\* graph::tour for tour i, called by graph::solution in program::run's loop:
\* a shortest cycle that is not the whole vertex set throws incomplete_tour.
Tour ==
    /\ pc = "report"
    /\ tour_i <= LastTour
    /\ LET min == MinSubTour(Order, Snapshot(Order, vars[tour_i], X))
       IN  IF Len(min) # Order
           THEN /\ thrown' = Throw("utils::invalid_solution", "incomplete_tour",
                                   vertices, min)
                /\ pc' = "catch"
                /\ UNCHANGED tour_i
           ELSE /\ tour_i' = tour_i + 1
                /\ UNCHANGED <<pc, thrown>>
    /\ UNCHANGED <<args, next_id, pool, vertices, vars, constrs, quad, lazy,
                   cand, sol_count, X, exit_status>>
    /\ UNCHANGED tourVars

\* program::run returns and main returns EXIT_SUCCESS.
MainReturn ==
    /\ pc = "report"
    /\ tour_i > LastTour
    /\ pc' = "exit"
    /\ exit_status' = <<EXIT_SUCCESS>>
    /\ UNCHANGED <<args, next_id, pool, vertices, vars, constrs, quad, lazy,
                   cand, sol_count, X, tour_i, thrown>>
    /\ UNCHANGED tourVars

\* The exceptions std::exception is a base of.
StdExceptions ==
    {"std::runtime_error", "utils::invalid_file", "utils::not_enough_items",
     "utils::invalid_solution"}

\* main's handlers, in order: utils::invalid_solution (which reports and falls
\* through to the final return), std::exception, GRBException, anything else.
Catch ==
    /\ pc = "catch"
    /\ exit_status' =
          IF thrown[1].type = "utils::invalid_solution" THEN <<EXIT_SUCCESS>>
          ELSE IF thrown[1].type \in StdExceptions THEN <<EXIT_FAILURE>>
          ELSE IF thrown[1].type = "GRBException" THEN <<EXIT_FAILURE>>
          ELSE <<EXIT_FAILURE>>
    /\ pc' = "exit"
    /\ UNCHANGED <<args, next_id, pool, vertices, vars, constrs, quad, lazy,
                   cand, sol_count, X, tour_i, thrown>>
    /\ UNCHANGED tourVars

Next ==
    \/ Program
    \/ Vertices
    \/ Sample
    \/ Map
    \/ EnginePresent
    \/ Callback
    \/ EngineError
    \/ Solve
    \/ Tour
    \/ MainReturn
    \/ Catch

Spec == Init /\ [][Next]_allVars

\* ------------------------------------------------ graph notions for the claims
Symmetric(n, M) == \A u, v \in Pos(n) : M[u][v] = M[v][u]

FalseDiagonal(n, M) == \A u \in Pos(n) : ~M[u][u]

RowCount(n, M, u) == Cardinality({v \in Pos(n) : M[u][v]})

RowsHaveTwo(n, M) == \A u \in Pos(n) : RowCount(n, M, u) = 2

RECURSIVE Closure(_, _, _)
Closure(n, M, S) ==
    LET T == S \cup {v \in Pos(n) : \E u \in S : M[u][v]}
    IN  IF T = S THEN S ELSE Closure(n, M, T)

\* The vertices connected to u.
Component(n, M, u) == Closure(n, M, {u})

Components(n, M) == {Component(n, M, u) : u \in Pos(n)}

CycleUnion(n, M) ==
    n >= 3 /\ Symmetric(n, M) /\ FalseDiagonal(n, M) /\ RowsHaveTwo(n, M)

OneHamiltonianCycle(n, M) ==
    CycleUnion(n, M) /\ Component(n, M, 0) = Pos(n)

\* t lists every position of S exactly once, consecutive positions adjacent,
\* the last adjacent to the first.
IsCycleOver(M, S, t) ==
    /\ Len(t) = Cardinality(S)
    /\ Range(t) = S
    /\ \A i \in 1 .. (Len(t) - 1) : M[t[i]][t[i + 1]]
    /\ Len(t) > 0 => M[t[Len(t)]][t[1]]

\* Among the components of minimum size, the one holding the lowest position.
MinComponent(n, M) ==
    LET cs    == Components(n, M)
        small == {c \in cs : \A d \in cs : Cardinality(c) <= Cardinality(d)}
    IN  CHOOSE c \in small : \A d \in small : MinOf(c) <= MinOf(d)

\* --------------------------------------------------------------------- C1
\* C1: on a symmetric, false-diagonal matrix encoding exactly one Hamiltonian
\* cycle over 0..n-1 (n >= 3), min_sub_tour returns a sequence of length n
\* holding every position exactly once, each consecutive pair adjacent and
\* the last element adjacent to the first.
C1_HamiltonianCycleExtracted ==
    (TourDone /\ OneHamiltonianCycle(count, solution))
        => IsCycleOver(solution, Pos(count), min_tour)

C1_Witness ==
    /\ TourDone
    /\ OneHamiltonianCycle(count, solution)
    /\ count >= 5
    /\ min_tour[2] # 1
    /\ IsCycleOver(solution, Pos(count), min_tour)

\* --------------------------------------------------------------------- C2
\* C2 (as amended): on a symmetric matrix with a false diagonal in which each
\* row has exactly two true entries, min_sub_tour returns exactly the vertex
\* set of one component cycle of minimum size, in cycle order, and among
\* several of that size the one containing the lowest vertex index.
C2_ShortestCycleFirstFound ==
    (TourDone /\ CycleUnion(count, solution))
        => IsCycleOver(solution, MinComponent(count, solution), min_tour)

\* C2 as stated, without the false diagonal: every symmetric matrix whose
\* rows each have exactly two true entries.
C2_AsStated ==
    (TourDone /\ count >= 1 /\ Symmetric(count, solution)
        /\ RowsHaveTwo(count, solution))
        => /\ Range(min_tour) = MinComponent(count, solution)
           /\ Len(min_tour) = Cardinality(MinComponent(count, solution))

\* Two cycles of different sizes, the shorter found second and kept.
C2_Witness ==
    /\ TourDone
    /\ CycleUnion(count, solution)
    /\ Len(tours) = 2
    /\ Len(tours[2]) < Len(tours[1])
    /\ min_tour = tours[2]

\* --------------------------------------------------------------------- C3
\* Strictly decreases at every step of the extraction.
TourVariant ==
    4 * Cardinality({p \in Pos(count) : ~seen[p]})
        + (CASE ipc = "walk" -> 0 [] ipc = "idle" -> 1 [] ipc = "returned" -> 2)
        + (IF mpc = "done" THEN 0 ELSE 1)

C3_Bounds ==
    /\ Len(tour_vertices) <= count
    /\ Len(tours) <= count
    /\ \A i \in DOMAIN tours : Len(tours[i]) <= count
    /\ TourVariant >= 0
    /\ ~TourDone => ENABLED TourNext
    /\ TourDone => /\ Len(min_tour) <= count
                   /\ (Len(min_tour) = 0) <=> (count = 0)

\* C3: on every n x n boolean matrix whatsoever (n >= 0), min_sub_tour
\* terminates: every step decreases a non-negative measure and a step is
\* possible until it returns; each walk appends at most n positions, there are
\* at most n walks, and the result has length at most n, 0 only when n = 0.
C3_TerminatesWithinBounds ==
    [][TourVariant' < TourVariant]_tourVars /\ []C3_Bounds

\* A malformed matrix (asymmetric, a true diagonal entry, a row with three true
\* entries and an empty row) is walked to the end.
C3_Witness ==
    /\ TourDone
    /\ count = 3
    /\ ~Symmetric(count, solution)
    /\ \E u \in Pos(count) : solution[u][u]
    /\ \E u \in Pos(count) : RowCount(count, solution, u) = 3
    /\ \E u \in Pos(count) : RowCount(count, solution, u) = 0
    /\ Len(tours) >= 2

\* The engine's model has been built (graph::graph has run).
Built == vars # <<>>

\* The boolean snapshot of tour t under the assignment x.
SnapshotOf(t, x) == Snapshot(Order, vars[t], x)

\* --------------------------------------------------------------------- C4
\* The variables of vm with both endpoints in S.
VarsWithin(vm, S) == {vm[p[1]][p[2]] : p \in {q \in S \X S : q[1] # q[2]}}

\* C4: at every invocation of the separation callback, for each tour
\* independently: a lazy constraint is submitted iff Tour Extraction returns a
\* cycle of length m < n on that tour's snapshot; it is `sum <= m - 1`, and its
\* left-hand side holds exactly the variables of that tour with both endpoints
\* in the extracted subset S, each once; S is a component cycle of the
\* snapshot, and none is submitted iff the snapshot is one Hamiltonian cycle.
C4_CutPerSubtour ==
    [][pc = "callback" =>
        \A t \in Tours :
            LET M   == SnapshotOf(t, cand[1])
                tr  == MinSubTour(Order, M)
                S   == Range(tr)
                new == lazy'[t] \ lazy[t]
            IN  /\ (Len(tr) < Order) <=> (new # {})
                /\ (new = {}) <=> (Order = 0 \/ OneHamiltonianCycle(Order, M))
                /\ \A c \in new :
                      /\ new = {c}
                      /\ c.sense = "<="
                      /\ c.rhs = Len(tr) - 1
                      /\ Range(c.expr) = VarsWithin(vars[t], S)
                      /\ Len(c.expr) = Size(Cardinality(S))
                      /\ Len(tr) = Cardinality(S)
                      /\ S \in Components(Order, M)
    ]_allVars

\* A cut has been submitted for the first tour and none for the second.
C4_Witness ==
    /\ pc = "optimize"
    /\ lazy[LastTour] = {}
    /\ \E c \in lazy[0] : lazy[0] = {c} /\ c.rhs = 2 /\ Len(c.expr) = 3

\* --------------------------------------------------------------------- C5
\* C5: every candidate the engine accepts encodes one Hamiltonian cycle per
\* tour, from which Tour Extraction returns a cycle over all n positions; the
\* incomplete-tour error is never raised.
C5_AcceptedIsHamiltonian ==
    /\ (Built /\ sol_count > 0) =>
          \A t \in Tours :
              LET M == SnapshotOf(t, X)
              IN  /\ Order = 0 \/ OneHamiltonianCycle(Order, M)
                  /\ IsCycleOver(M, Pos(Order), MinSubTour(Order, M))
    /\ thrown # <<>> => thrown[1].what # "incomplete_tour"

\* A clean exit on six vertices, after a cut was submitted.
C5_Witness ==
    /\ pc = "exit"
    /\ thrown = <<>>
    /\ exit_status = <<EXIT_SUCCESS>>
    /\ Order = 6
    /\ TotalCuts >= 1
    /\ \A t \in Tours : OneHamiltonianCycle(Order, SnapshotOf(t, X))

\* --------------------------------------------------------------------- C6
\* The run ended in an error of the taxonomy.
ErrorOutcome == thrown # <<>>

\* C6: the exit status is non-zero for every error outcome (input error, zero
\* solutions, incomplete tour, engine error) and zero only on a clean solve
\* with at least one solution and both tours complete.
C6_ExitStatus ==
    pc = "exit" =>
        /\ ErrorOutcome => exit_status # <<EXIT_SUCCESS>>
        /\ exit_status = <<EXIT_SUCCESS>> =>
              /\ sol_count > 0
              /\ \A t \in Tours :
                    Len(MinSubTour(Order, SnapshotOf(t, X))) = Order

\* --------------------------------------------------------------------- C7
\* The number of unordered pairs selected in both tours by the assignment x.
SimilarityCount(x) ==
    Cardinality({e \in {p \in Pos(Order) \X Pos(Order) : p[1] < p[2]} :
        \A t \in Tours : x[vars[t][e[1]][e[2]]] = 1})

\* C7: every candidate the engine presents or accepts shares at least k edges
\* between its two tours (k the configured --similarity), and an assignment
\* satisfying the degree constraints with exactly k shared edges is a
\* candidate.
C7_SimilarityAtLeastK ==
    /\ pc = "callback" => SimilarityCount(cand[1]) >= args.similarity
    /\ (Built /\ sol_count > 0) => SimilarityCount(X) >= args.similarity
    /\ (pc = "optimize" /\ TotalCuts = 0) =>
          LET open == Candidates
          IN  \A x0 \in DegreeFeasibleOf(Order, 0), x1 \in DegreeFeasibleOf(Order, LastTour) :
                  SimilarityCount(x0 @@ x1) = args.similarity
                      => (x0 @@ x1) \in open

\* A candidate with exactly k >= 1 shared edges, where some assignment
\* satisfying the degree constraints has fewer.
C7_Witness ==
    /\ pc = "callback"
    /\ args.similarity >= 1
    /\ SimilarityCount(cand[1]) = args.similarity
    /\ LET open == Candidates
       IN  \E x0 \in DegreeFeasibleOf(Order, 0), x1 \in DegreeFeasibleOf(Order, LastTour) :
               /\ SimilarityCount(x0 @@ x1) < args.similarity
               /\ (x0 @@ x1) \notin open

\* --------------------------------------------------------------------- C8
\* graph::solve has returned or thrown.
SolveEnded ==
    /\ Built
    /\ \/ pc = "report"
       \/ pc = "exit" /\ thrown = <<>>
       \/ thrown # <<>> /\ thrown[1].type = "utils::invalid_solution"

\* C8: for every vertex set of size n < 3 (0, 1 and 2), no integral
\* assignment satisfies the degree constraints of the model built, and solve()
\* raises zero_solutions carrying the vertex set.
C8_SmallOrdersHaveNoSolution ==
    /\ (Built /\ Order < 3) =>
          \A t \in Tours :
              ~ \E x \in [Handles(Order, vars[t]) -> {0, 1}] :
                    \A i \in DOMAIN constrs[t] : Satisfies(x, constrs[t][i])
    /\ (SolveEnded /\ Order < 3) =>
          /\ thrown # <<>>
          /\ thrown[1].what = "zero_solutions"
          /\ thrown[1].vertices = vertices

\* --------------------------------------------------------------------- C9
\* C9: vertex::read on r >= 1 well-formed records returns r vertices whose
\* ids are pairwise distinct positive integers drawn from the process-wide
\* counter, so no two of them compare equal.
C9_ReadGivesFreshIds ==
    (pc = "sample" /\ args.filename # <<>>) =>
        /\ Len(pool) = Len(args.filename[1])
        /\ \A i \in DOMAIN pool : pool[i].id >= 1 /\ pool[i].id < next_id
        /\ \A i, j \in DOMAIN pool : i # j => ~VertexEq(pool[i], pool[j])

\* -------------------------------------------------------------------- C10
\* C10: per tour, one variable per unordered pair (n(n-1)/2 of them, the same
\* handle at [u][v] and [v][u], none on the diagonal), n degree constraints,
\* the one of u being sum over v # u of vars[u][v] = 2; and every candidate
\* presented to the callback snapshots to a symmetric matrix in which every
\* row has exactly two true entries.
C10_ModelShape ==
    Built =>
        /\ Cardinality(UNION {Handles(Order, vars[t]) : t \in Tours})
              = (LastTour + 1) * Size(Order)
        /\ \A t \in Tours :
              /\ Cardinality(Handles(Order, vars[t])) = Size(Order)
              /\ NullVar \notin Handles(Order, vars[t])
              /\ \A u, v \in Pos(Order) : vars[t][u][v] = vars[t][v][u]
              /\ \A u \in Pos(Order) : vars[t][u][u] = NullVar
              /\ Len(constrs[t]) = Order
              /\ \A u \in Pos(Order) :
                    /\ constrs[t][u + 1].sense = "="
                    /\ constrs[t][u + 1].rhs = 2
                    /\ Len(constrs[t][u + 1].expr) = Order - 1
                    /\ Range(constrs[t][u + 1].expr)
                          = {vars[t][u][v] : v \in Pos(Order) \ {u}}
              /\ pc = "callback" =>
                    LET M == SnapshotOf(t, cand[1])
                    IN  /\ Symmetric(Order, M)
                        /\ FalseDiagonal(Order, M)
                        /\ RowsHaveTwo(Order, M)

\* A candidate on six vertices whose first tour is two triangles.
C10_Witness ==
    /\ pc = "callback"
    /\ Order = 6
    /\ Cardinality(Components(Order, SnapshotOf(0, cand[1]))) = 2
    /\ RowsHaveTwo(Order, SnapshotOf(0, cand[1]))

\* -------------------------------------------------------------------- C11
\* graph::solve has been entered: the engine's optimize() was called.
SolveCalled ==
    \/ pc \in {"optimize", "callback", "solved", "report"}
    \/ sol_count > 0
    \/ thrown # <<>> /\ thrown[1].type \in {"utils::invalid_solution", "GRBException"}

\* C11: a similarity threshold k no pair of tours can achieve (k larger than
\* the number of vertex pairs and larger than n) is reported as a
\* configuration error before solving begins: solve() is never called for
\* such k, and the run ends in an error that is not the solver's.
C11_OversizedSimilarityRejected ==
    (pc \notin {"main", "run", "sample"}
        /\ args.ok
        /\ (thrown = <<>> \/ thrown[1].type \notin {"utils::invalid_file", "utils::not_enough_items"})
        /\ args.similarity > Size(Order)
        /\ args.similarity > Order)
        => /\ ~SolveCalled
           /\ pc = "exit" => thrown # <<>>

\* ------------------------------------- the candidate/cut loop, followed whole
\* graph::solve entered on the built-in vertex set (all of it, or all but one
\* vertex) with the largest similarity: the program's state once program::map
\* has built the graph.
LoopInit ==
    /\ TourIdle
    /\ pc = "optimize"
    /\ args \in {a \in Arguments :
                    /\ a.ok
                    /\ a.filename = <<>>
                    /\ a.nodes \in {DefaultCount - 1, DefaultCount}
                    /\ a.similarity = MaxK}
    /\ next_id = DefaultCount + 1
    /\ pool = <<>>
    /\ vertices \in SampleSet(DEFAULT_VERTICES, args.nodes)
    /\ vars = Vars(Len(vertices))
    /\ constrs = [t \in Tours |-> AddConstraintDeg2(Len(vertices), vars[t])]
    /\ quad = AddConstraintSimilarity(MapSimilarity(args.similarity))
    /\ lazy = [t \in Tours |-> {}]
    /\ cand = <<>>
    /\ sol_count = 0
    /\ X = <<>>
    /\ tour_i = 0
    /\ thrown = <<>>
    /\ exit_status = <<>>

\* The engine finds an integral candidate and invokes the callback on it; the
\* search is followed while fewer than MaxLoopCuts cuts are in.
LoopPresent ==
    /\ pc = "optimize"
    /\ TotalCuts < MaxLoopCuts
    /\ \E x \in Candidates : cand' = <<x>>
    /\ pc' = "callback"
    /\ UNCHANGED <<args, next_id, pool, vertices, vars, constrs, quad, lazy,
                   sol_count, X, tour_i, thrown, exit_status>>
    /\ UNCHANGED tourVars

\* graph::solve once optimize() returns, with a solution or with the search
\* exhausted.
LoopSolve ==
    /\ \/ pc = "solved"
       \/ pc = "optimize" /\ TotalCuts < MaxLoopCuts /\ Candidates = {}
    /\ IF sol_count <= 0
       THEN /\ thrown' = Throw("utils::invalid_solution", "zero_solutions",
                               vertices, <<>>)
            /\ pc' = "catch"
       ELSE /\ pc' = "report"
            /\ UNCHANGED thrown
    /\ tour_i' = 0
    /\ UNCHANGED <<args, next_id, pool, vertices, vars, constrs, quad, lazy,
                   cand, sol_count, X, exit_status>>
    /\ UNCHANGED tourVars

LoopNext == LoopPresent \/ Callback \/ LoopSolve

\* The control steps of LoopNext: optimize() presents a candidate or returns,
\* the callback returns into the search or having accepted, solve() returns or
\* throws.  A step of LoopNext is possible exactly where one of these is.
LoopAdvance ==
    \/ pc = "optimize" /\ TotalCuts < MaxLoopCuts /\ pc' \in {"callback", "catch"}
    \/ pc = "callback" /\ pc' \in {"optimize", "solved"}
    \/ pc = "solved" /\ pc' \in {"report", "catch"}

\* The program is one thread: optimize() blocks until the search is over and
\* calls the callback synchronously, so no step of the loop is postponed
\* forever.
SpecLoop ==
    /\ LoopInit
    /\ [][LoopNext]_allVars
    /\ WF_pc(LoopAdvance)

\* -------------------------------------------------------------------- C12
\* The positions whose variables the cut c of tour t sums.
CutSet(t, c) ==
    {u \in Pos(Order) : \E v \in Pos(Order) \ {u} : vars[t][u][v] \in Range(c.expr)}

\* The assignments of tour t's variables that encode one Hamiltonian cycle.
HamiltonianTable ==
    {d \in DegreeFeasibleTable :
        OneHamiltonianCycle(d[1], Snapshot(d[1], Vars(d[1])[d[2]], d[3]))}

HamiltonianOf(t) ==
    {e[3] : e \in {d \in HamiltonianTable : d[1] = Order /\ d[2] = t}}

\* The search has reached the number of cuts up to which it is followed.
LoopCapped == pc = "optimize" /\ TotalCuts >= MaxLoopCuts

\* The candidate/cut loop is over: solve() returns with an accepted candidate
\* or throws zero_solutions.
LoopEnded ==
    \/ pc = "report" /\ sol_count > 0
    \/ pc = "catch" /\ thrown[1].what = "zero_solutions"

\* What one return of the callback does to the search: each cut it submits is
\* violated by the candidate that triggered it, which selects |S| edges inside
\* S, and is satisfied by every Hamiltonian cycle on n > |S| vertices; a
\* rejection strictly shrinks the set of admissible assignments, the rejected
\* candidate leaving it.
CutsSoundAndShrinking ==
    [][pc = "callback" =>
        /\ \A t \in Tours : \A c \in lazy'[t] \ lazy[t] :
              LET S == CutSet(t, c)
              IN  /\ Cardinality(S) < Order
                  /\ Value(cand[1], c.expr) = Cardinality(S)
                  /\ ~Satisfies(cand[1], c)
                  /\ \A h \in HamiltonianOf(t) : Satisfies(h, c)
        /\ lazy' # lazy =>
              \A before \in {Candidates} : \A after \in {Candidates'} :
                  /\ after \subseteq before
                  /\ cand[1] \in before \ after
    ]_allVars

\* No candidate the engine reports contains a subtour a cut already forbids.
NoSubtourTwice ==
    pc = "callback" =>
        \A t \in Tours : \A c \in lazy[t] :
            CutSet(t, c) \notin Components(Order, SnapshotOf(t, cand[1]))

RECURSIVE Flatten(_)
Flatten(ws) == IF ws = <<>> THEN <<>> ELSE Head(ws) \o Flatten(Tail(ws))

\* Every position appended so far, the walk under way included.
Walked == Flatten(tours) \o (IF ipc = "idle" THEN <<>> ELSE tour_vertices)

\* The positions appended so far are distinct and are exactly the seen ones; a
\* walk that has returned stopped inside its budget, at a position without an
\* unseen neighbour; once the iterator is exhausted every position has been
\* appended exactly once, by non-empty walks.
WalksPartition ==
    /\ \A i, j \in DOMAIN Walked : i # j => Walked[i] # Walked[j]
    /\ \A p \in Pos(count) : seen[p] <=> p \in Range(Walked)
    /\ ipc = "returned" =>
          /\ len > 0
          /\ tour_vertices # <<>>
          /\ ~ \E v \in Pos(count) :
                  solution[tour_vertices[Len(tour_vertices)]][v] /\ ~seen[v]
    /\ TourDone =>
          /\ Len(Walked) = count
          /\ Range(Walked) = Pos(count)
          /\ \A i \in DOMAIN tours : tours[i] # <<>>

\* The seen set only grows, and a walk starts at the lowest unseen position,
\* which is the first position it appends.
WalksGrowFromLowest ==
    /\ \A p \in Pos(count) : seen[p] => seen'[p]
    /\ (ipc = "idle" /\ ipc' = "walk") =>
          /\ ~seen[node']
          /\ \A p \in Pos(count) : p < node' => seen[p]
    /\ (ipc = "walk" /\ tour_vertices = <<>>) => tour_vertices' = <<node>>

\* C13: within one call of tour::min_sub_tour on any n x n boolean matrix the
\* walks of successive next_tour calls partition the positions 0..n-1: the
\* seen set only grows, every walk starts at the lowest unseen position, no
\* position is appended twice, at exhaustion every position has been seen
\* exactly once, and the n-step bound never stops a walk while an unseen
\* neighbour exists.
C13_WalksPartitionPositions ==
    [][WalksGrowFromLowest]_allVars /\ []WalksPartition

\* One walk has used its whole budget on an asymmetric matrix: it appended
\* all three positions and stopped at the last one, all of whose neighbours
\* were seen.
C13_Witness ==
    /\ TourDone
    /\ count = 3
    /\ ~Symmetric(count, solution)
    /\ Len(tours) = 1
    /\ Len(tours[1]) = count
    /\ \E v \in Pos(count) : solution[tours[1][count]][v]
====
